---- MODULE Spec2Model ----
(***************************************************************************)
(* Model of the honey flavor wheel (topaccina/honey_taste_v0).             *)
(*                                                                         *)
(*  - Spec        the gesture controller of the FlavorWheel component:    *)
(*                rotate-drag (pointer events), wheel zoom, pinch zoom     *)
(*                (raw touch events) and the reset control of the display  *)
(*                variant.  The gesture handlers are textually the same    *)
(*                in src/src/components/FlavorWheel.tsx (lines 87-172)     *)
(*                and src/unnamed/part_000 (lines 73-158).                 *)
(*  - SpecFlatten the taxonomy flattener of src/src/utils/wheelData.ts,    *)
(*                applied to bounded taxonomies.                           *)
(*  - SpecLabel   tangentialLabelRotation on the 15-degree grid.           *)
(*  - SpecDrag    the rotate-drag track alone (pointer events), each       *)
(*                handler followed by the render of one segment's label.   *)
(*  - SpecTooltip the interactive variant used with a mouse: pointer and   *)
(*                wheel events and the segment handlers of the tooltip.    *)
(*                                                                         *)
(* Numbers.  JavaScript numbers are modelled as extended rationals         *)
(* <<n, d>> in lowest terms with d >= 0: d > 0 is the finite value n/d,    *)
(* <<1,0>> is +Infinity, <<-1,0>> is -Infinity and <<0,0>> is NaN.         *)
(* Arithmetic is exact; IEEE-754 rounding is not modelled.  Angles of the  *)
(* gesture controller are whole degrees and are kept as integers.          *)
(*                                                                         *)
(* Rendering.  React re-renders after a handler changed state and before   *)
(* the next event is dispatched, so every action ends with the render's    *)
(* effect  zoomRef.current = zoom  and the handlers' closures see the      *)
(* current rotation.                                                       *)
(***************************************************************************)
EXTENDS Integers, Sequences, FiniteSets, TLC

VARIABLES
    \* ---- gesture controller (Spec) ----
    rotation,    \* useState(0): wheel rotation, whole degrees
    zoom,        \* useState(1): zoom factor, a Num
    dragRef,     \* useRef: Null or [startAngle, startRotation]
    pinchRef,    \* useRef: Null or [initialDistance, initialZoom]
    zoomRef,     \* useRef(zoom), refreshed on every render
    touches,     \* the browser's list of active touch points (e.touches)
    event,       \* the event handled last: [type, theta, button]
    \* ---- flattener (SpecFlatten) ----
    data,        \* the taxonomy handed to the flattener
    options,     \* [startAngleDeg, clockwise]
    segments,    \* the flattener's output
    fpc,         \* "input" before the call, "done" after it
    \* ---- label rotation (SpecLabel) ----
    midDeg,      \* mid angle of the segment being labelled
    wheelRotation, \* wheel rotation handed to tangentialLabelRotation
    labelRot,    \* the returned label rotation
    lpc,         \* "input" before the call, "done" after it
    \* ---- tooltip of the interactive variant (SpecTooltip) ----
    tooltip,     \* useState(null): Null or [seg, at]
    target,      \* index of the segment the last event was delivered to, 0 for none
    \* ---- history (SpecDrag) ----
    before,      \* the event handled before the last one and the rotation it left
    \* ---- tooltip positioner (SpecTooltipPos) ----
    pos,         \* [segPoint, viewCentre, tip, pc]: a call of getTooltipPosition
    \* ---- arcs in double precision (SpecArc) ----
    arc,         \* [path, angles, pc]: the angles along one path of a taxonomy
    \* ---- the display variant run beside the interactive one (SpecPair) ----
    display      \* [rotation, zoom, dragRef, pinchRef, zoomRef] of the display variant

gestureVars == <<rotation, zoom, dragRef, pinchRef, zoomRef, touches, event>>
flattenVars == <<data, options, segments, fpc>>
labelVars   == <<midDeg, wheelRotation, labelRot, lpc>>
tooltipVars == <<tooltip, target>>
gestureState == <<rotation, zoom, dragRef, pinchRef, zoomRef, touches>>
vars == <<rotation, zoom, dragRef, pinchRef, zoomRef, touches, event,
          data, options, segments, fpc,
          midDeg, wheelRotation, labelRot, lpc,
          tooltip, target, before, pos, arc, display>>
extraVars == <<pos, arc, display>>

----------------------------------------------------------------------------
(* Bounds of the model *)

MaxRot == 20         \* no new drag is started once |rotation| exceeds it
MaxRotDrag == 400    \* the same for the rotate-drag track alone
MaxScale == 2        \* largest multiple of a triangle between segment point and centre
MaxKids == 7         \* most categories, and most children of a category, along a path
MaxDen == 1          \* no new touch is put down once the zoom's denominator exceeds it
MaxTouches == 2      \* most simultaneous touch points
MaxFingers == 3      \* the same for the pinch track alone
MaxTop == 2          \* most top-level categories of a taxonomy
MaxSub == 2          \* most children of a category
MaxLeaf == 2         \* most children of a subcategory

----------------------------------------------------------------------------
(* Extended rational arithmetic (JavaScript number semantics) *)

Abs(x) == IF x < 0 THEN -x ELSE x

Sign(x) == IF x < 0 THEN -1 ELSE IF x > 0 THEN 1 ELSE 0

RECURSIVE Gcd(_, _)
Gcd(a, b) == IF b = 0 THEN a ELSE Gcd(b, a % b)

Norm(n, d) ==
    IF d = 0 THEN <<Sign(n), 0>>
    ELSE LET s == IF d < 0 THEN -1 ELSE 1
             g == Gcd(Abs(n), Abs(d))
         IN  <<(s * n) \div g, (s * d) \div g>>

Int2Num(i) == <<i, 1>>
NaN == <<0, 0>>
PosInf == <<1, 0>>

IsNaN(a) == a[1] = 0 /\ a[2] = 0
IsFinite(a) == a[2] > 0

NumSub(a, b) == Norm(a[1] * b[2] - b[1] * a[2], a[2] * b[2])
NumAdd(a, b) == Norm(a[1] * b[2] + b[1] * a[2], a[2] * b[2])
NumMul(a, b) == Norm(a[1] * b[1], a[2] * b[2])
\* x / 0 is +-Infinity, 0 / 0 is NaN
NumDiv(a, b) == Norm(a[1] * b[2], a[2] * b[1])

\* a < b; false as soon as one side is NaN, as in JavaScript
NumLt(a, b) == ~IsNaN(a) /\ ~IsNaN(b) /\ a[1] * b[2] < b[1] * a[2]
NumLe(a, b) == ~IsNaN(a) /\ ~IsNaN(b) /\ a[1] * b[2] <= b[1] * a[2]

\* Math.max / Math.min: NaN if either argument is NaN
MathMax(a, b) == IF IsNaN(a) \/ IsNaN(b) THEN NaN ELSE IF NumLt(a, b) THEN b ELSE a
MathMin(a, b) == IF IsNaN(a) \/ IsNaN(b) THEN NaN ELSE IF NumLt(b, a) THEN b ELSE a

\* Math.hypot on integer legs whose hypotenuse is an integer
Hypot(dx, dy) ==
    CHOOSE r \in 0..(Abs(dx) + Abs(dy)) : r * r = dx * dx + dy * dy

\* the % operator of JavaScript: the result takes the sign of the dividend
JsMod(a, m) == IF a >= 0 THEN a % m ELSE -((-a) % m)

----------------------------------------------------------------------------
(* Program constants *)

ZOOM_MIN == <<1, 2>>
ZOOM_MAX == <<3, 1>>
\* ZOOM_SENSITIVITY = 0.002
ZOOM_SENSITIVITY == <<1, 500>>

Null == [null |-> TRUE]

----------------------------------------------------------------------------
(* Inputs *)

\* atan2(dy, dx) of the pointer in whole degrees; the pointer angles are
\* 350, 10 and 190
Thetas == {-100, -80, 100}
Buttons == {0, 2}
DeltaYs == {-100000, 500, 100000}
\* touch positions (clientX, clientY); distances 0, 5 and 10
Points == {<<0, 0>>, <<3, 4>>, <<6, 8>>}

Ev(t, th, b) == [type |-> t, theta |-> th, button |-> b]

----------------------------------------------------------------------------
(* Gesture controller *)

angleFromEvent(theta) == JsMod(theta + 90 + 360, 360)

getTouchDistance(ts) == Int2Num(Hypot(ts[2][1] - ts[1][1], ts[2][2] - ts[1][2]))

\* DragRotation without the wrap of the delta into [-180, 180]
DragRotationNoWrap(drag, currentAngle) ==
    drag.startRotation + (currentAngle - drag.startAngle)

\* DragRotation that wraps a delta above 180 only
DragRotationOneSided(drag, currentAngle) ==
    LET d0 == currentAngle - drag.startAngle
        d1 == IF d0 > 180 THEN d0 - 360 ELSE d0
    IN  drag.startRotation + d1

\* the value handlePointerMove hands to setRotation
DragRotation(drag, currentAngle) ==
    LET d0 == currentAngle - drag.startAngle
        d1 == IF d0 > 180 THEN d0 - 360 ELSE d0
        d2 == IF d1 < -180 THEN d1 + 360 ELSE d1
    IN  drag.startRotation + d2

\* the updater handleWheel hands to setZoom
WheelZoom(z, deltaY) ==
    MathMin(ZOOM_MAX,
            MathMax(ZOOM_MIN, NumSub(z, NumMul(Int2Num(deltaY), ZOOM_SENSITIVITY))))

\* PinchZoom with the ratio inverted
PinchZoomInverted(pinch, ts) ==
    LET scale == NumDiv(pinch.initialDistance, getTouchDistance(ts))
    IN  MathMin(ZOOM_MAX, MathMax(ZOOM_MIN, NumMul(pinch.initialZoom, scale)))

\* the value handleTouchMove hands to setZoom
PinchZoom(pinch, ts) ==
    LET scale == NumDiv(getTouchDistance(ts), pinch.initialDistance)
    IN  MathMin(ZOOM_MAX, MathMax(ZOOM_MIN, NumMul(pinch.initialZoom, scale)))

InBounds(z) == z[2] <= MaxDen

GestureInit ==
    /\ rotation = 0
    /\ zoom = Int2Num(1)
    /\ dragRef = Null
    /\ pinchRef = Null
    /\ zoomRef = Int2Num(1)
    /\ touches = <<>>
    /\ event = Ev("mount", 0, 0)

\* handlePointerDown without the test of the button
handlePointerDownAnyButton(theta, button) ==
    /\ event' = Ev("pointerdown", theta, button)
    /\ dragRef' = [startAngle |-> angleFromEvent(theta), startRotation |-> rotation]
    /\ UNCHANGED <<rotation, zoom, pinchRef, zoomRef, touches>>

handlePointerDown(theta, button) ==
    /\ event' = Ev("pointerdown", theta, button)
    /\ dragRef' = IF button # 0 THEN dragRef
                  ELSE [startAngle |-> angleFromEvent(theta),
                        startRotation |-> rotation]
    /\ UNCHANGED <<rotation, zoom, pinchRef, zoomRef, touches>>

\* handlePointerMove that adds the delta to the current rotation instead of
\* the anchor's
handlePointerMoveFromCurrent(theta) ==
    /\ event' = Ev("pointermove", theta, 0)
    /\ rotation' = IF dragRef = Null THEN rotation
                   ELSE DragRotation([dragRef EXCEPT !.startRotation = rotation],
                                     angleFromEvent(theta))
    /\ UNCHANGED <<zoom, dragRef, pinchRef, zoomRef, touches>>

handlePointerMove(theta) ==
    /\ event' = Ev("pointermove", theta, 0)
    /\ rotation' = IF dragRef = Null THEN rotation
                   ELSE DragRotation(dragRef, angleFromEvent(theta))
    /\ UNCHANGED <<zoom, dragRef, pinchRef, zoomRef, touches>>

\* handlePointerUp that ends every gesture, the pinch included
handlePointerUpClearAll ==
    /\ event' = Ev("pointerup", 0, 0)
    /\ dragRef' = Null
    /\ pinchRef' = Null
    /\ UNCHANGED <<rotation, zoom, zoomRef, touches>>

handlePointerUp ==
    /\ event' = Ev("pointerup", 0, 0)
    /\ dragRef' = Null
    /\ UNCHANGED <<rotation, zoom, pinchRef, zoomRef, touches>>

\* onPointerLeave={handlePointerUp}
handlePointerLeave ==
    /\ event' = Ev("pointerleave", 0, 0)
    /\ dragRef' = Null
    /\ UNCHANGED <<rotation, zoom, pinchRef, zoomRef, touches>>

\* handleWheel that also ends a drag in progress
handleWheelEndDrag(deltaY) ==
    /\ event' = Ev("wheel", 0, 0)
    /\ zoom' = WheelZoom(zoom, deltaY)
    /\ zoomRef' = zoom'
    /\ dragRef' = Null
    /\ UNCHANGED <<rotation, pinchRef, touches>>

handleWheel(deltaY) ==
    /\ event' = Ev("wheel", 0, 0)
    /\ zoom' = WheelZoom(zoom, deltaY)
    /\ zoomRef' = zoom'
    /\ UNCHANGED <<rotation, dragRef, pinchRef, touches>>

\* a finger is put down at point p
\* handleTouchStart that takes the zoom of the first render, the value the
\* listener's closure holds, for the baseline
handleTouchStartMountZoom(p) ==
    /\ Len(touches) < MaxTouches
    /\ InBounds(zoomRef)
    /\ event' = Ev("touchstart", 0, 0)
    /\ touches' = Append(touches, p)
    /\ pinchRef' = IF Len(touches') = 2
                   THEN [initialDistance |-> getTouchDistance(touches'),
                         initialZoom |-> Int2Num(1)]
                   ELSE pinchRef
    /\ UNCHANGED <<rotation, zoom, dragRef, zoomRef>>

\* TouchStartEffect that takes a new baseline whenever two or more fingers
\* are down
TouchStartEffectTwoOrMore(p) ==
    /\ event' = Ev("touchstart", 0, 0)
    /\ touches' = Append(touches, p)
    /\ pinchRef' = IF Len(touches') >= 2
                   THEN [initialDistance |-> getTouchDistance(touches'),
                         initialZoom |-> zoomRef]
                   ELSE pinchRef
    /\ UNCHANGED <<rotation, zoom, dragRef, zoomRef>>

\* the touchstart listener, for a finger put down at point p
TouchStartEffect(p) ==
    /\ event' = Ev("touchstart", 0, 0)
    /\ touches' = Append(touches, p)
    /\ pinchRef' = IF Len(touches') = 2
                   THEN [initialDistance |-> getTouchDistance(touches'),
                         initialZoom |-> zoomRef]
                   ELSE pinchRef
    /\ UNCHANGED <<rotation, zoom, dragRef, zoomRef>>

handleTouchStart(p) ==
    /\ Len(touches) < MaxTouches
    /\ InBounds(zoomRef)
    /\ TouchStartEffect(p)

\* handleTouchMove that scales the zoom of the moment
handleTouchMoveFromCurrent(i, p) ==
    /\ touches[i] # p
    /\ event' = Ev("touchmove", 0, 0)
    /\ touches' = [touches EXCEPT ![i] = p]
    /\ zoom' = IF Len(touches') = 2 /\ pinchRef # Null
               THEN PinchZoom([pinchRef EXCEPT !.initialZoom = zoomRef], touches')
               ELSE zoom
    /\ zoomRef' = zoom'
    /\ UNCHANGED <<rotation, dragRef, pinchRef>>

\* the finger at index i moves to point p
handleTouchMove(i, p) ==
    /\ touches[i] # p
    /\ event' = Ev("touchmove", 0, 0)
    /\ touches' = [touches EXCEPT ![i] = p]
    /\ zoom' = IF Len(touches') = 2 /\ pinchRef # Null
               THEN PinchZoom(pinchRef, touches')
               ELSE zoom
    /\ zoomRef' = zoom'
    /\ UNCHANGED <<rotation, dragRef, pinchRef>>

\* the touches that remain when the finger at index i is lifted
Remaining(ts, i) == SubSeq(ts, 1, i - 1) \o SubSeq(ts, i + 1, Len(ts))

\* TouchEndEffect that clears the baseline only when the last finger is lifted
TouchEndEffectLastFinger(i) ==
    /\ touches' = Remaining(touches, i)
    /\ pinchRef' = IF Len(touches') < 1 THEN Null ELSE pinchRef
    /\ UNCHANGED <<rotation, zoom, dragRef, zoomRef>>

\* handleTouchEndWithE, bound to touchend and to touchcancel
TouchEndEffect(i) ==
    /\ touches' = Remaining(touches, i)
    /\ pinchRef' = IF Len(touches') < 2 THEN Null ELSE pinchRef
    /\ UNCHANGED <<rotation, zoom, dragRef, zoomRef>>

\* el.addEventListener('touchend', handleTouchEndWithE)
handleTouchEnd(i) ==
    /\ event' = Ev("touchend", 0, 0)
    /\ TouchEndEffect(i)

\* el.addEventListener('touchcancel', handleTouchEndWithE)
handleTouchCancel(i) ==
    /\ event' = Ev("touchcancel", 0, 0)
    /\ TouchEndEffect(i)

\* handleReset that forgets setRotation(0)
handleResetZoomOnly ==
    /\ event' = Ev("reset", 0, 0)
    /\ zoom' = Int2Num(1)
    /\ zoomRef' = zoom'
    /\ UNCHANGED <<rotation, dragRef, pinchRef, touches>>

\* display variant: the centre reset control
handleReset ==
    /\ event' = Ev("reset", 0, 0)
    /\ zoom' = Int2Num(1)
    /\ rotation' = 0
    /\ zoomRef' = zoom'
    /\ UNCHANGED <<dragRef, pinchRef, touches>>

----------------------------------------------------------------------------
(* Taxonomy flattener: src/src/utils/wheelData.ts *)

\* A string is a sequence of characters.  A mapping is the sequence of its
\* entries in key order (Object.keys); an entry is
\*   [id, name, description, hasChildren, children]
\* where hasChildren = FALSE is a node without a children property and
\* hasChildren = TRUE with children = <<>> is a node whose children map is {}.

Dash == <<"-">>

\* template literal `${a}-${b}`
Join(a, b) == a \o Dash \o b

\* AngleAt that forgets the base angle
AngleAtNoBase(base, i, step, sign) ==
    NumMul(NumMul(Int2Num(i), step), Int2Num(sign))

\* base + i * step * sign
AngleAt(base, i, step, sign) ==
    NumAdd(base, NumMul(NumMul(Int2Num(i), step), Int2Num(sign)))

\* StepOf with a fencepost error in the count
StepOfFencepost(total, count) == NumDiv(total, Int2Num(count + 1))

\* total / keys.length
StepOf(total, count) == NumDiv(total, Int2Num(count))

\* a FlavorNode under its key
Node(key, hasCh, ch) ==
    [id |-> key, name |-> <<"N">> \o key, description |-> <<"D">> \o key,
     hasChildren |-> hasCh, children |-> ch]

NoParent == <<>>

Ring1Segment(cat, a0, a1) ==
    [id |-> cat.id, ring |-> 1, name |-> cat.name, description |-> cat.description,
     startAngle |-> a0, endAngle |-> a1,
     hasParentId |-> FALSE, parentId |-> NoParent, categoryId |-> cat.id]

\* Ring2Segment that takes the subcategory for the category
Ring2SegmentOwnCategory(cat, sub, b0, b1) ==
    [id |-> Join(cat.id, sub.id), ring |-> 2, name |-> sub.name,
     description |-> sub.description, startAngle |-> b0, endAngle |-> b1,
     hasParentId |-> TRUE, parentId |-> cat.id, categoryId |-> sub.id]

Ring2Segment(cat, sub, b0, b1) ==
    [id |-> Join(cat.id, sub.id), ring |-> 2, name |-> sub.name,
     description |-> sub.description, startAngle |-> b0, endAngle |-> b1,
     hasParentId |-> TRUE, parentId |-> cat.id, categoryId |-> cat.id]

\* Ring3Segment that names the category as the parent
Ring3SegmentCategoryParent(cat, sub, leaf, c0, c1) ==
    [id |-> Join(Join(cat.id, sub.id), leaf.id), ring |-> 3, name |-> leaf.name,
     description |-> leaf.description, startAngle |-> c0, endAngle |-> c1,
     hasParentId |-> TRUE, parentId |-> cat.id, categoryId |-> cat.id]

Ring3Segment(cat, sub, leaf, c0, c1) ==
    [id |-> Join(Join(cat.id, sub.id), leaf.id), ring |-> 3, name |-> leaf.name,
     description |-> leaf.description, startAngle |-> c0, endAngle |-> c1,
     hasParentId |-> TRUE, parentId |-> Join(cat.id, sub.id), categoryId |-> cat.id]

\* leafKeys.forEach, from the k-th leaf on (k counts from 0 as in the source)
RECURSIVE LeafLoop(_, _, _, _, _, _)
LeafLoop(cat, sub, b0, leafStep, sign, k) ==
    IF k >= Len(sub.children) THEN <<>>
    ELSE LET leaf == sub.children[k + 1]
             c0 == AngleAt(b0, k, leafStep, sign)
             c1 == AngleAt(b0, k + 1, leafStep, sign)
         IN  <<Ring3Segment(cat, sub, leaf, c0, c1)>>
             \o LeafLoop(cat, sub, b0, leafStep, sign, k + 1)

\* subKeys.forEach, from the j-th subcategory on
RECURSIVE SubLoop(_, _, _, _, _)
SubLoop(cat, a0, subStep, sign, j) ==
    IF j >= Len(cat.children) THEN <<>>
    ELSE LET sub == cat.children[j + 1]
             b0 == AngleAt(a0, j, subStep, sign)
             b1 == AngleAt(a0, j + 1, subStep, sign)
             leaves == IF ~sub.hasChildren THEN <<>>
                       ELSE LeafLoop(cat, sub, b0,
                                     StepOf(subStep, Len(sub.children)), sign, 0)
         IN  <<Ring2Segment(cat, sub, b0, b1)>> \o leaves
             \o SubLoop(cat, a0, subStep, sign, j + 1)

\* keys.forEach, from the i-th category on
RECURSIVE CatLoop(_, _, _, _, _)
CatLoop(d, opts, step, sign, i) ==
    IF i >= Len(d) THEN <<>>
    ELSE LET cat == d[i + 1]
             a0 == AngleAt(opts.startAngleDeg, i, step, sign)
             a1 == AngleAt(opts.startAngleDeg, i + 1, step, sign)
             subs == IF ~cat.hasChildren THEN <<>>
                     ELSE SubLoop(cat, a0, StepOf(step, Len(cat.children)), sign, 0)
         IN  <<Ring1Segment(cat, a0, a1)>> \o subs
             \o CatLoop(d, opts, step, sign, i + 1)

\* flattenToSegments that draws an empty taxonomy as one slice of the whole
\* step
flattenToSegmentsFilled(d, opts) ==
    LET total == Int2Num(360)
        step == StepOf(total, Len(d))
        sign == IF opts.clockwise THEN 1 ELSE -1
    IN  IF Len(d) = 0
        THEN <<Ring1Segment(Node(<<>>, FALSE, <<>>), opts.startAngleDeg,
                            AngleAt(opts.startAngleDeg, 1, step, sign))>>
        ELSE CatLoop(d, opts, step, sign, 0)

\* flattenToSegments that passes over the categories whose children map is
\* empty
flattenToSegmentsSkipEmpty(d, opts) ==
    LET kept == SelectSeq(d, LAMBDA cat : ~(cat.hasChildren /\ cat.children = <<>>))
        total == Int2Num(360)
        step == StepOf(total, Len(kept))
        sign == IF opts.clockwise THEN 1 ELSE -1
    IN  CatLoop(kept, opts, step, sign, 0)

flattenToSegments(d, opts) ==
    LET total == Int2Num(360)
        step == StepOf(total, Len(d))
        sign == IF opts.clockwise THEN 1 ELSE -1
    IN  CatLoop(d, opts, step, sign, 0)

DefaultOptions == [startAngleDeg |-> Int2Num(0), clockwise |-> TRUE]

buildWheelSegments(d) == flattenToSegments(d, DefaultOptions)

getSegmentsByRing(segs, ring) == SelectSeq(segs, LAMBDA s : s.ring = ring)

(* Bounded taxonomies *)

Str(c) == <<c>>

\* the keys used at each level; the second scheme has keys that contain '-'
KeySchemes ==
    { [top  |-> <<Str("a"), Str("b"), Str("c"), Str("d")>>,
       sub  |-> <<Str("x"), Str("y"), Str("z"), Str("w")>>,
       leaf |-> <<Str("p"), Str("q"), Str("r"), Str("s")>>],
      [top  |-> <<Str("a"), <<"a", "-", "b">>, Str("b"), Str("c")>>,
       sub  |-> <<Str("b"), <<"b", "-", "c">>, Str("c"), Str("d")>>,
       leaf |-> <<Str("c"), Str("d"), Str("e"), Str("f")>>] }

\* a subcategory's shape: -1 for no children property, else its number of leaves
SubShapes == -1 .. MaxLeaf

\* a category's shape: whether it has a children property, and its
\* subcategories' shapes; at most one subcategory of a category (the one at
\* index w) has a children property
CatShapes ==
    {[has |-> FALSE, subs |-> <<>>], [has |-> TRUE, subs |-> <<>>]}
    \cup {[has |-> TRUE, subs |-> [j \in 1..m |-> IF j = w THEN l ELSE -1]] :
             m \in 1..MaxSub, w \in 1..MaxSub, l \in SubShapes}

DataShapes == UNION {[1..n -> CatShapes] : n \in 0..MaxTop}

MkLeaves(ks, n) == [k \in 1..n |-> Node(ks.leaf[k], FALSE, <<>>)]

MkSub(ks, j, shape) ==
    IF shape = -1 THEN Node(ks.sub[j], FALSE, <<>>)
    ELSE Node(ks.sub[j], TRUE, MkLeaves(ks, shape))

MkCat(ks, i, shape) ==
    IF ~shape.has THEN Node(ks.top[i], FALSE, <<>>)
    ELSE Node(ks.top[i], TRUE,
              [j \in 1..Len(shape.subs) |-> MkSub(ks, j, shape.subs[j])])

MkData(ks, shape) == [i \in 1..Len(shape) |-> MkCat(ks, i, shape[i])]

StartAngles == {Int2Num(0), Int2Num(90)}

FlattenInit ==
    /\ \E ks \in KeySchemes, shape \in DataShapes : data = MkData(ks, shape)
    /\ options \in [startAngleDeg : StartAngles, clockwise : BOOLEAN]
    /\ segments = <<>>
    /\ fpc = "input"

\* a direct call of the flattener with the options chosen
Flatten ==
    /\ fpc = "input"
    /\ segments' = flattenToSegments(data, options)
    /\ fpc' = "done"
    /\ UNCHANGED <<data, options>>

\* the call the component makes: buildWheelSegments(wheelData)
BuildWheel ==
    /\ fpc = "input"
    /\ segments' = buildWheelSegments(data)
    /\ options' = DefaultOptions
    /\ fpc' = "done"
    /\ UNCHANGED data

----------------------------------------------------------------------------
(* Double-precision arithmetic of the angles of one path of the taxonomy *)

\* A non-negative double is [m, e] with the value m * 2^e; m is a natural
\* number of at most 53 bits, odd, written in limbs of 11 bits, lowest first
\* (<<>> with e = 0 for zero). The angles stay far from the subnormal and the
\* overflow range.

LimbBits == 11

Base == 2 ^ LimbBits

Zeros(n) == [x \in 1..n |-> 0]

RECURSIVE NatLimbs(_)
NatLimbs(k) == IF k = 0 THEN <<>> ELSE <<k % Base>> \o NatLimbs(k \div Base)

\* without the zero limbs at the high end
Trim(a) ==
    LET used == {x \in 1..Len(a) : a[x] # 0}
    IN  IF used = {} THEN <<>>
        ELSE SubSeq(a, 1, CHOOSE x \in used : \A y \in used : y <= x)

PadTo(a, n) == a \o Zeros(n - Len(a))

RECURSIVE AddFrom(_, _, _, _)
AddFrom(a, b, i, c) ==
    IF i > Len(a) THEN <<c>>
    ELSE LET t == a[i] + b[i] + c
         IN  <<t % Base>> \o AddFrom(a, b, i + 1, t \div Base)

LimbsAdd(a, b) ==
    LET n == IF Len(a) > Len(b) THEN Len(a) ELSE Len(b)
    IN  Trim(AddFrom(PadTo(a, n), PadTo(b, n), 1, 0))

\* a - b for a >= b
RECURSIVE SubFrom(_, _, _, _)
SubFrom(a, b, i, c) ==
    IF i > Len(a) THEN <<>>
    ELSE LET t == a[i] - b[i] - c
         IN  <<t % Base>> \o SubFrom(a, b, i + 1, IF t < 0 THEN 1 ELSE 0)

LimbsSub(a, b) == Trim(SubFrom(a, PadTo(b, Len(a)), 1, 0))

\* a * k for k <= Base
RECURSIVE MulFrom(_, _, _, _)
MulFrom(a, k, i, c) ==
    IF i > Len(a) THEN <<c>>
    ELSE LET t == a[i] * k + c
         IN  <<t % Base>> \o MulFrom(a, k, i + 1, t \div Base)

LimbsMul(a, k) == Trim(MulFrom(a, k, 1, 0))

\* long division by k <= Base, from the highest limb down
RECURSIVE DivFrom(_, _, _, _, _)
DivFrom(a, k, i, r, q) ==
    IF i = 0 THEN [q |-> Trim(q), r |-> r]
    ELSE LET t == Base * r + a[i]
         IN  DivFrom(a, k, i - 1, t % k, <<t \div k>> \o q)

LimbsDiv(a, k) == DivFrom(a, k, Len(a), 0, <<>>)

\* a < b for trimmed a and b
LimbsLt(a, b) ==
    IF Len(a) # Len(b) THEN Len(a) < Len(b)
    ELSE \E x \in 1..Len(a) :
            /\ a[x] < b[x]
            /\ \A y \in (x + 1)..Len(a) : a[y] = b[y]

\* the number of bits of a trimmed a
BitLen(a) ==
    IF a = <<>> THEN 0
    ELSE LimbBits * (Len(a) - 1)
            + (CHOOSE b \in 1..LimbBits : 2 ^ (b - 1) <= a[Len(a)] /\ a[Len(a)] < 2 ^ b)

\* a * 2^n
ShiftLeft(a, n) ==
    IF a = <<>> THEN <<>>
    ELSE Zeros(n \div LimbBits) \o LimbsMul(a, 2 ^ (n % LimbBits))

\* a \div 2^n and a % 2^n
ShiftRight(a, n) ==
    LET limbs == n \div LimbBits
        d == LimbsDiv(SubSeq(a, limbs + 1, Len(a)), 2 ^ (n % LimbBits))
    IN  [q |-> d.q, r |-> Trim(SubSeq(a, 1, limbs) \o <<d.r>>)]

\* the number of zero bits at the low end of a trimmed, non-zero a
LowZeros(a) ==
    LET z == CHOOSE x \in 1..Len(a) : a[x] # 0 /\ \A y \in 1..(x - 1) : a[y] = 0
    IN  LimbBits * (z - 1)
           + (CHOOSE b \in 0..(LimbBits - 1) :
                 a[z] % (2 ^ b) = 0 /\ a[z] % (2 ^ (b + 1)) # 0)

\* the zero bits at the low end go into the exponent
DblNorm(m, e) ==
    IF m = <<>> THEN [m |-> <<>>, e |-> 0]
    ELSE [m |-> ShiftRight(m, LowZeros(m)).q, e |-> e + LowZeros(m)]

DblPrecision == 53

\* round to nearest, ties to even, of the exact value m * 2^e
DblRound(m, e) ==
    IF BitLen(m) <= DblPrecision THEN DblNorm(m, e)
    ELSE LET d == BitLen(m) - DblPrecision
             cut == ShiftRight(m, d)
             half == ShiftLeft(<<1>>, d - 1)
             up == \/ LimbsLt(half, cut.r)
                   \/ cut.r = half /\ cut.q[1] % 2 = 1
         IN  DblNorm(IF up THEN LimbsAdd(cut.q, <<1>>) ELSE cut.q, e + d)

DblOfNat(k) == DblNorm(NatLimbs(k), 0)

\* the mantissas of x and y at their smaller exponent
Aligned(x, y) ==
    LET e == IF x.e < y.e THEN x.e ELSE y.e
    IN  [x |-> ShiftLeft(x.m, x.e - e), y |-> ShiftLeft(y.m, y.e - e), e |-> e]

DblLt(x, y) == LET al == Aligned(x, y) IN LimbsLt(al.x, al.y)

DblLe(x, y) == ~DblLt(y, x)

DblAdd(x, y) ==
    IF x.m = <<>> THEN y
    ELSE IF y.m = <<>> THEN x
    ELSE LET al == Aligned(x, y) IN DblRound(LimbsAdd(al.x, al.y), al.e)

\* x - y for x >= y
DblSub(x, y) ==
    IF y.m = <<>> THEN x
    ELSE LET al == Aligned(x, y) IN DblRound(LimbsSub(al.x, al.y), al.e)

\* k * x for a small natural number k
DblMul(k, x) == DblRound(LimbsMul(x.m, k), x.e)

\* x / k for a small natural number k: the quotient to 64 more bits, with a
\* lowest bit that says whether anything was left over
DblDiv(x, k) ==
    LET d == LimbsDiv(ShiftLeft(x.m, 64), k)
    IN  IF x.m = <<>> THEN x
        ELSE DblRound(LimbsAdd(LimbsMul(d.q, 2), IF d.r = 0 THEN <<>> ELSE <<1>>),
                      x.e - 65)

\* describeArc's large-arc flag, set from a span of 180 on
DblLargeArcFlagFrom180(startDeg, endDeg) ==
    IF DblLt(endDeg, startDeg) THEN 0
    ELSE IF DblLe(DblOfNat(180), DblSub(endDeg, startDeg)) THEN 1 ELSE 0

\* describeArc's large-arc flag
DblLargeArcFlag(startDeg, endDeg) ==
    IF DblLt(endDeg, startDeg) THEN 0
    ELSE IF DblLt(DblOfNat(180), DblSub(endDeg, startDeg)) THEN 1 ELSE 0

\* options.startAngleDeg + i * step * sign of buildWheelSegments (start 0, sign 1)
DblAngleAt(base, i, step) == DblAdd(base, DblMul(1, DblMul(i, step)))

\* the segments of category i of n, its subcategory j of m and that one's
\* leaf k of l (indices from 0), as buildWheelSegments computes them
PathSegments(p) ==
    LET step == DblDiv(DblOfNat(360), p.n)
        a0 == DblAngleAt(DblOfNat(0), p.i, step)
        a1 == DblAngleAt(DblOfNat(0), p.i + 1, step)
        subStep == DblDiv(step, p.m)
        b0 == DblAngleAt(a0, p.j, subStep)
        b1 == DblAngleAt(a0, p.j + 1, subStep)
        leafStep == DblDiv(subStep, p.l)
        c0 == DblAngleAt(b0, p.k, leafStep)
        c1 == DblAngleAt(b0, p.k + 1, leafStep)
    IN  <<[ring |-> 1, startAngle |-> a0, endAngle |-> a1],
          [ring |-> 2, startAngle |-> b0, endAngle |-> b1],
          [ring |-> 3, startAngle |-> c0, endAngle |-> c1]>>

Paths ==
    { p \in [n : 1..MaxKids, m : 1..MaxKids, l : 1..MaxLeaf,
             i : 0..(MaxKids - 1), j : 0..(MaxKids - 1), k : 0..(MaxLeaf - 1)] :
        p.i < p.n /\ p.j < p.m /\ p.k < p.l }

ArcInit == \E p \in Paths : arc = [pc |-> "input", path |-> p, segs |-> <<>>]

BuildPath ==
    /\ arc.pc = "input"
    /\ arc' = [arc EXCEPT !.pc = "done", !.segs = PathSegments(arc.path)]

----------------------------------------------------------------------------
(* The gesture handlers of the display variant, on the record of its state *)

DISPLAY_ZOOM_MIN == <<1, 2>>
DISPLAY_ZOOM_MAX == <<3, 1>>
\* ZOOM_SENSITIVITY = 0.002
DISPLAY_ZOOM_SENSITIVITY == <<1, 500>>

displayAngleFromEvent(theta) == JsMod(theta + 90 + 360, 360)

displayGetTouchDistance(ts) ==
    Int2Num(Hypot(ts[2][1] - ts[1][1], ts[2][2] - ts[1][2]))

DisplayInit ==
    display = [rotation |-> 0, zoom |-> Int2Num(1), dragRef |-> Null,
               pinchRef |-> Null, zoomRef |-> Int2Num(1), pc |-> "run"]

displayHandlePointerDown(d, theta, button) ==
    IF button # 0 THEN d
    ELSE [d EXCEPT !.dragRef = [startAngle |-> displayAngleFromEvent(theta),
                                startRotation |-> d.rotation]]

displayHandlePointerMove(d, theta) ==
    IF d.dragRef = Null THEN d
    ELSE LET currentAngle == displayAngleFromEvent(theta)
             d0 == currentAngle - d.dragRef.startAngle
             d1 == IF d0 > 180 THEN d0 - 360 ELSE d0
             d2 == IF d1 < -180 THEN d1 + 360 ELSE d1
         IN  [d EXCEPT !.rotation = d.dragRef.startRotation + d2]

\* also bound to onPointerLeave
displayHandlePointerUp(d) == [d EXCEPT !.dragRef = Null]

\* displayHandleWheel with a sensitivity of 0.02
displayHandleWheelCoarse(d, deltaY) ==
    LET z == MathMin(DISPLAY_ZOOM_MAX,
                     MathMax(DISPLAY_ZOOM_MIN,
                             NumSub(d.zoom, NumMul(Int2Num(deltaY), <<1, 50>>))))
    IN  [d EXCEPT !.zoom = z, !.zoomRef = z]

displayHandleWheel(d, deltaY) ==
    LET z == MathMin(DISPLAY_ZOOM_MAX,
                     MathMax(DISPLAY_ZOOM_MIN,
                             NumSub(d.zoom,
                                    NumMul(Int2Num(deltaY), DISPLAY_ZOOM_SENSITIVITY))))
    IN  [d EXCEPT !.zoom = z, !.zoomRef = z]

\* ts: the touches of the event
displayHandleTouchStart(d, ts) ==
    IF Len(ts) = 2
    THEN [d EXCEPT !.pinchRef = [initialDistance |-> displayGetTouchDistance(ts),
                                 initialZoom |-> d.zoomRef]]
    ELSE d

displayHandleTouchMove(d, ts) ==
    IF Len(ts) = 2 /\ d.pinchRef # Null
    THEN LET scale == NumDiv(displayGetTouchDistance(ts), d.pinchRef.initialDistance)
             newZoom == MathMin(DISPLAY_ZOOM_MAX,
                                MathMax(DISPLAY_ZOOM_MIN,
                                        NumMul(d.pinchRef.initialZoom, scale)))
         IN  [d EXCEPT !.zoom = newZoom, !.zoomRef = newZoom]
    ELSE d

\* bound to touchend and to touchcancel
displayHandleTouchEndWithE(d, ts) ==
    IF Len(ts) < 2 THEN [d EXCEPT !.pinchRef = Null] ELSE d

\* the events both variants are given
PairThetas == {-100, -80}
PairPoints == {<<0, 0>>, <<3, 4>>}

----------------------------------------------------------------------------
(* Tooltip of the interactive variant: the segment handlers *)

RING_RADII ==
    [ring \in 1..3 |->
        CASE ring = 1 -> [inner |-> 76, outer |-> 186]
          [] ring = 2 -> [inner |-> 186, outer |-> 318]
          [] ring = 3 -> [inner |-> 318, outer |-> 399]]

midAngle(startDeg, endDeg) == NumDiv(NumAdd(startDeg, endDeg), Int2Num(2))

\* the taxonomy the component is built on: a category with one subcategory
\* with one leaf, and a category without children
WheelData ==
    LET ks == CHOOSE k \in KeySchemes : k.top[2] = Str("b")
    IN  MkData(ks, <<[has |-> TRUE, subs |-> <<1>>], [has |-> FALSE, subs |-> <<>>]>>)

\* getBoundingClientRect() of the path the event was delivered to
Rects ==
    { [left |-> 0, top |-> 0, width |-> 800, height |-> 800],
      [left |-> 100, top |-> 50, width |-> 400, height |-> 400] }

\* the tooltip state { seg, x, y } a handler sets; x and y are the value of
\* getTooltipPosition at the point polarToCart gives for (mid, r), scaled
\* into rect: they are kept as the triple they are computed from
SegmentTooltip(seg, rect) ==
    [seg |-> seg,
     at  |-> [rect |-> rect,
              mid  |-> midAngle(seg.startAngle, seg.endAngle),
              r    |-> NumDiv(Int2Num(RING_RADII[seg.ring].inner
                                      + RING_RADII[seg.ring].outer), Int2Num(2))]]

TooltipInit ==
    /\ tooltip = Null
    /\ target = 0
    /\ data = WheelData
    /\ options = DefaultOptions
    /\ segments = buildWheelSegments(WheelData)
    /\ fpc = "done"

\* handleSegmentPointerEnter without the test of the drag anchor
handleSegmentPointerEnterAnyTime(i, rect) ==
    /\ event' = Ev("segmententer", 0, 0)
    /\ target' = i
    /\ tooltip' = SegmentTooltip(segments[i], rect)
    /\ UNCHANGED gestureState

handleSegmentPointerEnter(i, rect) ==
    /\ event' = Ev("segmententer", 0, 0)
    /\ target' = i
    /\ tooltip' = IF dragRef # Null THEN tooltip
                  ELSE SegmentTooltip(segments[i], rect)
    /\ UNCHANGED gestureState

\* handleSegmentPointerMove that sets the tooltip whatever it showed
handleSegmentPointerMoveAlways(i, rect, theta) ==
    /\ target' = i
    /\ tooltip' = SegmentTooltip(segments[i], rect)
    /\ handlePointerMove(theta)

\* the path's onPointerMove; the event then bubbles to the svg's
\* onPointerMove, handlePointerMove
handleSegmentPointerMove(i, rect, theta) ==
    /\ target' = i
    /\ tooltip' = IF tooltip # Null /\ tooltip.seg.id = segments[i].id
                  THEN SegmentTooltip(segments[i], rect)
                  ELSE tooltip
    /\ handlePointerMove(theta)

handleSegmentPointerLeave(i) ==
    /\ event' = Ev("segmentleave", 0, 0)
    /\ target' = i
    /\ tooltip' = Null
    /\ UNCHANGED gestureState

\* handleSegmentClick that always shows the clicked segment
handleSegmentClickShow(i, rect) ==
    /\ event' = Ev("click", 0, 0)
    /\ target' = i
    /\ tooltip' = SegmentTooltip(segments[i], rect)
    /\ UNCHANGED gestureState

handleSegmentClick(i, rect) ==
    /\ event' = Ev("click", 0, 0)
    /\ target' = i
    /\ tooltip' = IF tooltip # Null /\ tooltip.seg.id = segments[i].id
                  THEN Null
                  ELSE SegmentTooltip(segments[i], rect)
    /\ UNCHANGED gestureState

----------------------------------------------------------------------------
(* Tooltip positioner: getTooltipPosition of the interactive variant *)

\* getTooltipPosition without the "|| 1" on the length
getTooltipPositionNoGuard(segmentViewport, centre) ==
    LET dx == centre[1] - segmentViewport[1]
        dy == centre[2] - segmentViewport[2]
        len == Hypot(dx, dy)
        offset == Int2Num(100)
    IN  <<NumAdd(Int2Num(segmentViewport[1]),
                 NumMul(NumDiv(Int2Num(dx), Int2Num(len)), offset)),
          NumAdd(Int2Num(segmentViewport[2]),
                 NumMul(NumDiv(Int2Num(dy), Int2Num(len)), offset))>>

\* centre is (vw, vh), half the window's inner size, (400, 400) without a
\* window
getTooltipPosition(segmentViewport, centre) ==
    LET dx == centre[1] - segmentViewport[1]
        dy == centre[2] - segmentViewport[2]
        hyp == Hypot(dx, dy)
        len == IF hyp = 0 THEN 1 ELSE hyp
        offset == Int2Num(100)
    IN  <<NumAdd(Int2Num(segmentViewport[1]),
                 NumMul(NumDiv(Int2Num(dx), Int2Num(len)), offset)),
          NumAdd(Int2Num(segmentViewport[2]),
                 NumMul(NumDiv(Int2Num(dy), Int2Num(len)), offset))>>

\* half the inner size of the window
Centres == {<<400, 400>>, <<640, 360>>, <<180, 320>>}

\* the vectors from the segment point to the centre: multiples of integer
\* right triangles, so that Math.hypot is an integer
Triangles == {<<3, 4>>, <<4, 3>>, <<0, 5>>, <<5, 0>>, <<5, 12>>}

Offsets ==
    {<<sx * k * t[1], sy * k * t[2]>> :
        sx \in {-1, 1}, sy \in {-1, 1}, k \in 0..MaxScale, t \in Triangles}

PosInit ==
    \E c \in Centres, o \in Offsets :
        pos = [segPoint |-> <<c[1] - o[1], c[2] - o[2]>>, viewCentre |-> c,
               tip |-> <<NaN, NaN>>, pc |-> "input"]

PlaceTooltip ==
    /\ pos.pc = "input"
    /\ pos' = [pos EXCEPT !.tip = getTooltipPosition(pos.segPoint, pos.viewCentre),
                          !.pc = "done"]

----------------------------------------------------------------------------
(* Label rotation: tangentialLabelRotation of the component *)

\* tangentialLabelRotation that decides the flip at layout time, without
\* the wheel rotation
tangentialLabelRotationStatic(mid, wheelRot) ==
    LET alongArc == mid + 90
        screenAngle == JsMod(alongArc + 360, 360)
        upsideDown == screenAngle > 90 /\ screenAngle < 270
    IN  IF upsideDown THEN alongArc + 180 ELSE alongArc

tangentialLabelRotation(mid, wheelRot) ==
    LET alongArc == mid + 90
        screenAngle == JsMod(alongArc + wheelRot + 360, 360)
        upsideDown == screenAngle > 90 /\ screenAngle < 270
    IN  IF upsideDown THEN alongArc + 180 ELSE alongArc

\* the test grid: 0, 15, ..., 345
Grid == {15 * k : k \in 0..23}

LabelInit ==
    /\ midDeg \in Grid
    /\ wheelRotation \in Grid
    /\ labelRot = 0
    /\ lpc = "input"

RenderLabel ==
    /\ lpc = "input"
    /\ labelRot' = tangentialLabelRotation(midDeg, wheelRotation)
    /\ lpc' = "done"
    /\ UNCHANGED <<midDeg, wheelRotation>>

\* the mid angles of the labelled segment
Mids == {0, 90, 225}

\* the render after a handler: the label of the segment with mid angle
\* midDeg is rotated by tangentialLabelRotation(mid, rotation)
RenderLabelOfWheel ==
    /\ wheelRotation' = rotation'
    /\ labelRot' = tangentialLabelRotation(midDeg, rotation')
    /\ lpc' = "done"
    /\ UNCHANGED midDeg

\* the event handled before and the rotation it had left
Remember ==
    before' = [type |-> event.type, theta |-> event.theta, rotation |-> rotation]

----------------------------------------------------------------------------
(* Specifications *)

\* values of the variables a specification does not use
GestureIdle ==
    /\ rotation = 0
    /\ zoom = Int2Num(1)
    /\ dragRef = Null
    /\ pinchRef = Null
    /\ zoomRef = Int2Num(1)
    /\ touches = <<>>
    /\ event = Ev("idle", 0, 0)

FlattenIdle ==
    /\ data = <<>>
    /\ options = DefaultOptions
    /\ segments = <<>>
    /\ fpc = "idle"

LabelIdle ==
    /\ midDeg = 0
    /\ wheelRotation = 0
    /\ labelRot = 0
    /\ lpc = "idle"

TooltipIdle ==
    /\ tooltip = Null
    /\ target = 0

HistoryIdle == before = [type |-> "idle", theta |-> 0, rotation |-> 0]

PosIdle == pos = [pc |-> "idle"]

ArcIdle == arc = [pc |-> "idle"]

PairIdle == display = [pc |-> "idle"]

ExtraIdle == PosIdle /\ ArcIdle /\ PairIdle

Init == GestureInit /\ FlattenIdle /\ LabelIdle /\ TooltipIdle /\ HistoryIdle /\ ExtraIdle

Next ==
    \/ \E th \in Thetas, b \in Buttons :
          /\ Abs(rotation) <= MaxRot
          /\ handlePointerDown(th, b) /\ UNCHANGED <<flattenVars, labelVars, tooltipVars, before, extraVars>>
    \/ \E th \in Thetas : handlePointerMove(th) /\ UNCHANGED <<flattenVars, labelVars, tooltipVars, before, extraVars>>
    \/ handlePointerUp /\ UNCHANGED <<flattenVars, labelVars, tooltipVars, before, extraVars>>
    \/ handlePointerLeave /\ UNCHANGED <<flattenVars, labelVars, tooltipVars, before, extraVars>>
    \/ \E dy \in DeltaYs : handleWheel(dy) /\ UNCHANGED <<flattenVars, labelVars, tooltipVars, before, extraVars>>
    \/ \E p \in Points : handleTouchStart(p) /\ UNCHANGED <<flattenVars, labelVars, tooltipVars, before, extraVars>>
    \/ \E i \in 1..Len(touches), p \in Points :
          handleTouchMove(i, p) /\ UNCHANGED <<flattenVars, labelVars, tooltipVars, before, extraVars>>
    \/ \E i \in 1..Len(touches) : handleTouchEnd(i) /\ UNCHANGED <<flattenVars, labelVars, tooltipVars, before, extraVars>>
    \/ \E i \in 1..Len(touches) : handleTouchCancel(i) /\ UNCHANGED <<flattenVars, labelVars, tooltipVars, before, extraVars>>
    \/ handleReset /\ UNCHANGED <<flattenVars, labelVars, tooltipVars, before, extraVars>>

Spec == Init /\ [][Next]_vars

\* the rotate-drag track alone, with the label of one segment rendered
\* after every handler
InitDrag ==
    /\ GestureInit /\ FlattenIdle /\ TooltipIdle /\ HistoryIdle /\ ExtraIdle
    /\ midDeg \in Mids
    /\ wheelRotation = rotation
    /\ labelRot = tangentialLabelRotation(midDeg, rotation)
    /\ lpc = "done"

NextDrag ==
    \/ \E th \in Thetas, b \in Buttons :
          /\ Abs(rotation) <= MaxRotDrag
          /\ handlePointerDown(th, b) /\ RenderLabelOfWheel /\ Remember
          /\ UNCHANGED <<flattenVars, tooltipVars, extraVars>>
    \/ \E th \in Thetas :
          /\ handlePointerMove(th) /\ RenderLabelOfWheel /\ Remember
          /\ UNCHANGED <<flattenVars, tooltipVars, extraVars>>
    \/ handlePointerUp /\ RenderLabelOfWheel /\ Remember
          /\ UNCHANGED <<flattenVars, tooltipVars, extraVars>>
    \/ handlePointerLeave /\ RenderLabelOfWheel /\ Remember
          /\ UNCHANGED <<flattenVars, tooltipVars, extraVars>>

SpecDrag == InitDrag /\ [][NextDrag]_vars

\* the interactive variant used with a mouse: pointer events on the svg or,
\* bubbling, on a segment (target 0 for none), the wheel, and the segment
\* handlers
InitTooltip ==
    /\ GestureInit /\ TooltipInit /\ LabelIdle /\ HistoryIdle /\ ExtraIdle

Targets == 0..Len(segments)

NextTooltip ==
    \/ \E th \in Thetas, b \in Buttons, i \in Targets :
          /\ Abs(rotation) <= MaxRot
          /\ handlePointerDown(th, b) /\ target' = i
          /\ UNCHANGED <<flattenVars, labelVars, tooltip, before, extraVars>>
    \/ \E th \in Thetas :
          /\ handlePointerMove(th) /\ target' = 0
          /\ UNCHANGED <<flattenVars, labelVars, tooltip, before, extraVars>>
    \/ \E th \in Thetas, i \in 1..Len(segments), rect \in Rects :
          /\ handleSegmentPointerMove(i, rect, th)
          /\ UNCHANGED <<flattenVars, labelVars, before, extraVars>>
    \/ \E i \in Targets :
          /\ handlePointerUp /\ target' = i
          /\ UNCHANGED <<flattenVars, labelVars, tooltip, before, extraVars>>
    \/ handlePointerLeave /\ target' = 0
          /\ UNCHANGED <<flattenVars, labelVars, tooltip, before, extraVars>>
    \/ \E dy \in DeltaYs :
          /\ handleWheel(dy) /\ target' = 0
          /\ UNCHANGED <<flattenVars, labelVars, tooltip, before, extraVars>>
    \/ \E i \in 1..Len(segments), rect \in Rects :
          handleSegmentPointerEnter(i, rect) /\ UNCHANGED <<flattenVars, labelVars, before, extraVars>>
    \/ \E i \in 1..Len(segments) :
          handleSegmentPointerLeave(i) /\ UNCHANGED <<flattenVars, labelVars, before, extraVars>>
    \/ \E i \in 1..Len(segments), rect \in Rects :
          handleSegmentClick(i, rect) /\ UNCHANGED <<flattenVars, labelVars, before, extraVars>>

SpecTooltip == InitTooltip /\ [][NextTooltip]_vars

\* calls of getTooltipPosition
InitTooltipPos ==
    /\ PosInit /\ ArcIdle /\ PairIdle
    /\ GestureIdle /\ FlattenIdle /\ LabelIdle /\ TooltipIdle /\ HistoryIdle

NextTooltipPos ==
    /\ PlaceTooltip
    /\ UNCHANGED <<gestureVars, flattenVars, labelVars, tooltipVars, before, arc, display>>

SpecTooltipPos == InitTooltipPos /\ [][NextTooltipPos]_vars

\* the interactive variant (the gesture variables) and the display variant
\* (the record) given the same pointer, wheel and touch events
InitPair ==
    /\ GestureInit /\ DisplayInit /\ PosIdle /\ ArcIdle
    /\ FlattenIdle /\ LabelIdle /\ TooltipIdle /\ HistoryIdle

NextPair ==
    /\ UNCHANGED <<flattenVars, labelVars, tooltipVars, before, pos, arc>>
    /\ \/ \E th \in PairThetas, b \in Buttons :
             /\ Abs(rotation) <= MaxRot
             /\ handlePointerDown(th, b)
             /\ display' = displayHandlePointerDown(display, th, b)
       \/ \E th \in PairThetas :
             /\ handlePointerMove(th)
             /\ display' = displayHandlePointerMove(display, th)
       \/ handlePointerUp /\ display' = displayHandlePointerUp(display)
       \/ handlePointerLeave /\ display' = displayHandlePointerUp(display)
       \/ \E dy \in DeltaYs :
             handleWheel(dy) /\ display' = displayHandleWheel(display, dy)
       \/ \E p \in PairPoints :
             handleTouchStart(p) /\ display' = displayHandleTouchStart(display, touches')
       \/ \E i \in 1..Len(touches), p \in PairPoints :
             handleTouchMove(i, p) /\ display' = displayHandleTouchMove(display, touches')
       \/ \E i \in 1..Len(touches) :
             handleTouchEnd(i) /\ display' = displayHandleTouchEndWithE(display, touches')
       \/ \E i \in 1..Len(touches) :
             handleTouchCancel(i) /\ display' = displayHandleTouchEndWithE(display, touches')

SpecPair == InitPair /\ [][NextPair]_vars

\* the pinch and the wheel alone, with up to MaxFingers fingers; the history
\* keeps the event and zoom before the step, the distance and zoom at the
\* last touch-start that left two fingers down, and the most fingers down
\* since then
PinchHistoryInit ==
    before = [type |-> "mount", zoom |-> Int2Num(1),
              baseDistance |-> Int2Num(0), baseZoom |-> Int2Num(1), peak |-> 0]

RememberPinch ==
    LET two == event'.type = "touchstart" /\ Len(touches') = 2
    IN  before' = [type |-> event.type,
                   zoom |-> zoom,
                   baseDistance |-> IF two THEN getTouchDistance(touches')
                                    ELSE before.baseDistance,
                   baseZoom |-> IF two THEN zoomRef ELSE before.baseZoom,
                   peak |-> IF Len(touches') < 2 THEN 0
                            ELSE IF Len(touches') > before.peak THEN Len(touches')
                            ELSE before.peak]

InitPinch ==
    /\ GestureInit /\ PinchHistoryInit
    /\ FlattenIdle /\ LabelIdle /\ TooltipIdle /\ ExtraIdle

NextPinch ==
    /\ UNCHANGED <<flattenVars, labelVars, tooltipVars, extraVars>>
    /\ \/ \E dy \in DeltaYs : handleWheel(dy)
       \/ \E p \in Points :
             /\ Len(touches) < MaxFingers
             /\ InBounds(zoomRef)
             /\ TouchStartEffect(p)
       \/ \E i \in 1..Len(touches), p \in Points : handleTouchMove(i, p)
       \/ \E i \in 1..Len(touches) : handleTouchEnd(i)
       \/ \E i \in 1..Len(touches) : handleTouchCancel(i)
    /\ RememberPinch

SpecPinch == InitPinch /\ [][NextPinch]_vars

\* buildWheelSegments along one path, in double precision
InitArc ==
    /\ ArcInit /\ PosIdle /\ PairIdle /\ GestureIdle
    /\ FlattenIdle /\ LabelIdle /\ TooltipIdle /\ HistoryIdle

NextArc ==
    BuildPath /\ UNCHANGED <<gestureVars, flattenVars, labelVars, tooltipVars, before, pos, display>>

SpecArc == InitArc /\ [][NextArc]_vars

InitFlatten == FlattenInit /\ GestureIdle /\ LabelIdle /\ TooltipIdle /\ HistoryIdle /\ ExtraIdle

NextFlatten ==
    \/ Flatten /\ UNCHANGED <<gestureVars, labelVars, tooltipVars, before, extraVars>>
    \/ BuildWheel /\ UNCHANGED <<gestureVars, labelVars, tooltipVars, before, extraVars>>

SpecFlatten == InitFlatten /\ [][NextFlatten]_vars

InitLabel == LabelInit /\ GestureIdle /\ FlattenIdle /\ TooltipIdle /\ HistoryIdle /\ ExtraIdle

NextLabel == RenderLabel /\ UNCHANGED <<gestureVars, flattenVars, tooltipVars, before, extraVars>>

SpecLabel == InitLabel /\ [][NextLabel]_vars

----------------------------------------------------------------------------
(* Properties of the gesture controller, checked under Spec *)

\* C1: in every reachable state the zoom value lies in [0.5, 3.0].
C1_ZoomClamped == NumLe(ZOOM_MIN, zoom) /\ NumLe(zoom, ZOOM_MAX)

PointerAngle == angleFromEvent(event.theta)

\* C2: a primary-button pointer-down at angle A0 anchors the drag at the
\* rotation R0 of that moment; a pointer-move to angle A1 of that drag with
\* |A1 - A0| < 180 sets rotation to exactly R0 + (A1 - A0), and the move from
\* A0 = 350 to A1 = 10 adds +20, not -340.
C2_RotateDragTracking ==
    /\ (event.type = "pointerdown" /\ event.button = 0)
          => dragRef = [startAngle |-> PointerAngle, startRotation |-> rotation]
    /\ (event.type = "pointermove" /\ dragRef # Null)
          => /\ Abs(PointerAngle - dragRef.startAngle) < 180
                   => rotation = dragRef.startRotation
                                   + (PointerAngle - dragRef.startAngle)
             /\ (dragRef.startAngle = 350 /\ PointerAngle = 10)
                   => rotation = dragRef.startRotation + 20

\* a drag anchored at angle 350 with a rotation other than 0 has moved across
\* the 0/360 boundary to angle 10
C2_Witness ==
    /\ event.type = "pointermove"
    /\ dragRef # Null
    /\ dragRef.startAngle = 350
    /\ dragRef.startRotation # 0
    /\ PointerAngle = 10
    /\ rotation = dragRef.startRotation + 20

\* C3 as stated: in no reachable state are a drag anchor and a pinch baseline
\* both present.
C3_NeverBothPresent == ~(dragRef # Null /\ pinchRef # Null)

PointerEvents == {"pointerdown", "pointermove", "pointerup", "pointerleave"}
TouchEvents == {"touchstart", "touchmove", "touchend", "touchcancel"}

\* C3 as amended: a drag anchor and a pinch baseline may both be present, but
\* no event applies both gestures: a pointer event leaves zoom and the pinch
\* baseline unchanged and a touch event leaves rotation and the drag anchor
\* unchanged.
C3_FieldIsolation ==
    [][ /\ event'.type \in PointerEvents => UNCHANGED <<zoom, pinchRef>>
        /\ event'.type \in TouchEvents => UNCHANGED <<rotation, dragRef>> ]_vars

\* a pinch has scaled the zoom while a drag that has turned the wheel is
\* still anchored
C3_Witness ==
    /\ event.type = "touchmove"
    /\ dragRef # Null
    /\ pinchRef # Null
    /\ rotation # dragRef.startRotation
    /\ zoom # pinchRef.initialZoom

\* C4: in the state right after a reset rotation is exactly 0 and zoom is
\* exactly 1, whatever the state before and whether or not a drag anchor or
\* a pinch baseline is present.
C4_ResetExact ==
    event.type = "reset" => (rotation = 0 /\ zoom = <<1, 1>>)

\* a reset in the middle of a drag that started from a turned wheel, with a
\* pinch baseline taken at a zoom other than 1
C4_Witness ==
    /\ event.type = "reset"
    /\ dragRef # Null
    /\ dragRef.startRotation # 0
    /\ pinchRef # Null
    /\ pinchRef.initialZoom # <<1, 1>>

\* C5: with a baseline of distance D0 > 0 taken at zoom Z0, a touch-move with
\* two touches at distance d sets zoom to Z0 * (d / D0) clamped to [0.5, 3.0]
\* (a Z0 that is NaN stays NaN); distance 2 * D0 yields min(3.0, 2 * Z0).
C5_PinchScaling ==
    (/\ event.type = "touchmove"
     /\ Len(touches) = 2
     /\ pinchRef # Null
     /\ pinchRef.initialDistance[1] > 0)
    => LET Z0 == pinchRef.initialZoom
           D0 == pinchRef.initialDistance[1]
           d  == getTouchDistance(touches)[1]
           \* Z0 * (d / D0) as the fraction rn / rd
           rn == Z0[1] * d
           rd == Z0[2] * D0
       IN  IF Z0[2] = 0 THEN zoom = Z0
           ELSE /\ 2 * rn < rd => zoom = <<1, 2>>
                /\ rn > 3 * rd => zoom = <<3, 1>>
                /\ (2 * rn >= rd /\ rn <= 3 * rd)
                      => (zoom[2] > 0 /\ zoom[1] * rd = rn * zoom[2])
                /\ d = 2 * D0
                      => IF 2 * Z0[1] > 3 * Z0[2] THEN zoom = <<3, 1>>
                         ELSE (zoom[2] > 0 /\ zoom[1] * Z0[2] = 2 * Z0[1] * zoom[2])

\* a pinch that doubled the finger distance 5 doubled the zoom 1
C5_Witness ==
    /\ event.type = "touchmove"
    /\ Len(touches) = 2
    /\ pinchRef = [initialDistance |-> <<5, 1>>, initialZoom |-> <<1, 1>>]
    /\ getTouchDistance(touches) = <<10, 1>>
    /\ zoom = <<2, 1>>

----------------------------------------------------------------------------
(* Properties of the flattener, checked under SpecFlatten *)

\* |end - start| of a segment
SpanOf(seg) ==
    LET w == NumSub(seg.endAngle, seg.startAngle)
    IN  <<Abs(w[1]), w[2]>>

RECURSIVE SumSpans(_)
SumSpans(segs) ==
    IF segs = <<>> THEN <<0, 1>>
    ELSE NumAdd(SpanOf(Head(segs)), SumSpans(Tail(segs)))

Ring1 == getSegmentsByRing(segments, 1)

ChildrenAt(i) ==
    {j \in (i + 1)..Len(segments) :
        /\ segments[j].ring = segments[i].ring + 1
        /\ \A k \in (i + 1)..j : segments[k].ring > segments[i].ring}

ScenarioData ==
    /\ Len(data) = 2
    /\ data[1].id = <<"a">> /\ data[1].hasChildren /\ Len(data[1].children) = 1
    /\ data[1].children[1].id = <<"x">> /\ ~data[1].children[1].hasChildren
    /\ data[2].id = <<"b">> /\ ~data[2].hasChildren

Brief(seg) ==
    [id |-> seg.id, ring |-> seg.ring, startAngle |-> seg.startAngle,
     endAngle |-> seg.endAngle, hasParentId |-> seg.hasParentId,
     parentId |-> seg.parentId, categoryId |-> seg.categoryId]

\* C8: the taxonomy {a: {children: {x}}, b: {}} flattened from 0 clockwise
\* gives exactly three segments: ring-1 a [0,180], ring-1 b [180,360] and
\* ring-2 x [0,180] with categoryId a and parentId a.
C8_EndToEnd ==
    (fpc = "done" /\ ScenarioData /\ options = DefaultOptions)
    => /\ Len(segments) = 3
       /\ {Brief(segments[i]) : i \in 1..3} =
            { [id |-> <<"a">>, ring |-> 1, startAngle |-> <<0, 1>>,
               endAngle |-> <<180, 1>>, hasParentId |-> FALSE,
               parentId |-> <<>>, categoryId |-> <<"a">>],
              [id |-> <<"b">>, ring |-> 1, startAngle |-> <<180, 1>>,
               endAngle |-> <<360, 1>>, hasParentId |-> FALSE,
               parentId |-> <<>>, categoryId |-> <<"b">>],
              [id |-> <<"a", "-", "x">>, ring |-> 2, startAngle |-> <<0, 1>>,
               endAngle |-> <<180, 1>>, hasParentId |-> TRUE,
               parentId |-> <<"a">>, categoryId |-> <<"a">>] }

\* the scenario's taxonomy has been flattened
C8_Witness ==
    fpc = "done" /\ ScenarioData /\ options = DefaultOptions /\ Len(segments) = 3

\* C10: no two segments of the output have the same id.
C10_IdsUnique ==
    fpc = "done" =>
    \A i \in 1..Len(segments) : \A j \in 1..Len(segments) :
        i # j => segments[i].id # segments[j].id

----------------------------------------------------------------------------
(* Properties of the label rotation, checked under SpecLabel *)

\* x brought into [0, 360)
Normalize360(x) == x % 360

\* C9: on the 15-degree grid of mid angles and wheel rotations the label
\* rotation plus the wheel rotation, normalized into [0, 360), never falls
\* strictly between 90 and 270.
C9_UprightOnGrid ==
    lpc = "done" =>
        LET onScreen == Normalize360(labelRot + wheelRotation)
        IN  ~(onScreen > 90 /\ onScreen < 270)

\* a label that was flipped because the rotated wheel carried it upside down
C9_Witness ==
    /\ lpc = "done"
    /\ wheelRotation # 0
    /\ labelRot = midDeg + 90 + 180
    /\ Normalize360(midDeg + 90) <= 90

----------------------------------------------------------------------------
(* Properties of the flattener on degenerate input (SpecFlatten) *)

\* C11: for an empty taxonomy the flattener returns the empty segment list,
\* so no segment with a non-finite angle is produced (the step 360/0 is
\* computed but never used).
C11_EmptyTaxonomy ==
    (fpc = "done" /\ Len(data) = 0)
    => /\ segments = <<>>
       /\ \A i \in 1..Len(segments) :
              IsFinite(segments[i].startAngle) /\ IsFinite(segments[i].endAngle)

\* the flattener has returned for the empty taxonomy, counter-clockwise
C11_Witness ==
    /\ fpc = "done"
    /\ data = <<>>
    /\ ~options.clockwise
    /\ segments = <<>>
    /\ ~IsFinite(StepOf(Int2Num(360), Len(data)))

----------------------------------------------------------------------------
(* Properties of the tooltip (SpecTooltip) *)

\* C12: a click on segment S dismisses the tooltip when the tooltip shown is
\* for S and otherwise (no tooltip, or one for another segment) leaves the
\* tooltip showing S: after the click the tooltip shows S iff it did not
\* show S before.
C12_ClickToggles ==
    [][ event'.type = "click" =>
          LET S == segments[target']
              shownBefore == tooltip # Null /\ tooltip.seg = S
              shownAfter == tooltip' # Null /\ tooltip'.seg = S
          IN  /\ shownBefore => tooltip' = Null
              /\ ~shownBefore => shownAfter
              /\ shownAfter <=> ~shownBefore ]_vars

\* a click on the ring-3 segment has dismissed its tooltip while a drag
\* anchor is present
C12_Witness ==
    /\ event.type = "click"
    /\ target = 3
    /\ segments[target].ring = 3
    /\ tooltip = Null
    /\ dragRef # Null

----------------------------------------------------------------------------
(* Properties of the rotate-drag track *)

\* the delta the last pointer-move of a drag added to the anchor rotation
AppliedDelta == rotation - dragRef.startRotation

\* C13 as stated: the delta applied by a pointer-move of a drag lies in the
\* half-open interval (-180, 180].
C13_DeltaHalfOpen ==
    (event.type = "pointermove" /\ dragRef # Null)
    => (-180 < AppliedDelta /\ AppliedDelta <= 180)

\* C13, amended: the delta applied by a pointer-move of a drag lies in the
\* closed interval [-180, 180] and is congruent to current angle minus
\* anchor angle modulo 360; a raw delta of exactly -180 is applied as -180.
C13_DeltaClosed ==
    (event.type = "pointermove" /\ dragRef # Null)
    => /\ -180 <= AppliedDelta /\ AppliedDelta <= 180
       /\ (AppliedDelta - (PointerAngle - dragRef.startAngle)) % 360 = 0
       /\ (PointerAngle - dragRef.startAngle = -180) => AppliedDelta = -180

\* a drag anchored at angle 190 has moved to the opposite angle 10
C13_Witness ==
    /\ event.type = "pointermove"
    /\ dragRef # Null
    /\ dragRef.startAngle = 190
    /\ PointerAngle = 10
    /\ AppliedDelta = -180

\* a brought into [-180, 180): the way from one angle to another taken the
\* short way round
ShortWay(a) == ((a + 540) % 360) - 180

\* the short way from the pointer angle of the previous event to that of the
\* last one
MoveDelta == ShortWay(PointerAngle - angleFromEvent(before.theta))

\* the last two events were pointer-moves of the same drag less than half a
\* turn apart
TwoMoves ==
    /\ event.type = "pointermove"
    /\ before.type = "pointermove"
    /\ dragRef # Null
    /\ MoveDelta # -180

\* C14 as stated (SpecDrag): after two consecutive pointer-moves of a drag
\* whose angles differ by d the short way round, the rotation after the
\* second differs from the rotation after the first by exactly d.
C14_NoJump == TwoMoves => rotation - before.rotation = MoveDelta

\* C14, amended (SpecDrag): the two rotations differ by d, d - 360 or
\* d + 360, and by exactly d when both pointer angles are less than 90
\* degrees away from the anchor angle.
C14_ContinuousModulo360 ==
    TwoMoves =>
        LET jump == (rotation - before.rotation) - MoveDelta
            near(theta) == Abs(ShortWay(angleFromEvent(theta) - dragRef.startAngle)) < 90
        IN  /\ jump \in {-360, 0, 360}
            /\ (near(before.theta) /\ near(event.theta)) => jump = 0

\* a drag anchored at 10 moved to 190 and then on to 350, 160 degrees the
\* short way, and the rotation went back by 200
C14_Witness ==
    /\ TwoMoves
    /\ dragRef.startAngle = 10
    /\ angleFromEvent(before.theta) = 190
    /\ PointerAngle = 350
    /\ MoveDelta = 160
    /\ rotation - before.rotation = -200

\* C15 as stated (SpecDrag): for the rotation left by any sequence of drags
\* the label rotation of the last render plus that rotation, normalized
\* into [0, 360), never falls strictly between 90 and 270.
C15_UprightAtReachableRotation ==
    lpc = "done" =>
        /\ wheelRotation = rotation
        /\ labelRot = tangentialLabelRotation(midDeg, rotation)
        /\ ~(Normalize360(labelRot + rotation) > 90
             /\ Normalize360(labelRot + rotation) < 270)

----------------------------------------------------------------------------
(* Properties of reset and of the pinch baseline (Spec) *)

\* C16 as stated: after a reset with a drag anchor present the next
\* pointer-move sets the rotation measured from 0 (the wrapped delta from the
\* anchor angle alone), and after a reset with a pinch baseline present the
\* next two-touch touch-move sets the zoom measured from 1 (the clamped
\* ratio of the distances alone).
C16_ResetAbandonsGesture ==
    [][ event.type = "reset" =>
          /\ (event'.type = "pointermove" /\ dragRef # Null)
                => /\ Abs(rotation') <= 180
                   /\ (rotation' - (angleFromEvent(event'.theta)
                                     - dragRef.startAngle)) % 360 = 0
          /\ (event'.type = "touchmove" /\ Len(touches') = 2 /\ pinchRef # Null)
                => zoom' = MathMin(ZOOM_MAX, MathMax(ZOOM_MIN,
                               NumDiv(getTouchDistance(touches'),
                                      pinchRef.initialDistance))) ]_vars

\* C17 as stated: a two-touch touch-move on a baseline recorded with
\* distance 0 leaves zoom finite and equal to the clamped baseline zoom.
C17_ZeroDistanceGuard ==
    (/\ event.type = "touchmove"
     /\ Len(touches) = 2
     /\ pinchRef # Null
     /\ pinchRef.initialDistance = Int2Num(0))
    => /\ IsFinite(zoom)
       /\ zoom = MathMin(ZOOM_MAX, MathMax(ZOOM_MIN, pinchRef.initialZoom))

\* C18: the four pointer events leave zoom and the pinch baseline unchanged,
\* the wheel and the four touch events leave rotation and the drag anchor
\* unchanged, and of all these gesture events only a pointer-move with an
\* anchor present changes rotation.
C18_TrackIsolation ==
    [][ /\ event'.type \in PointerEvents
            => (zoom' = zoom /\ pinchRef' = pinchRef)
        /\ event'.type \in ({"wheel"} \cup TouchEvents)
            => (rotation' = rotation /\ dragRef' = dragRef)
        /\ (event'.type \in (PointerEvents \cup {"wheel"} \cup TouchEvents)
             /\ rotation' # rotation)
            => (event'.type = "pointermove" /\ dragRef # Null) ]_vars

\* a pointer-move of a drag has turned the wheel while a pinch baseline and
\* a zoom other than 1 are in place
C18_Witness ==
    /\ event.type = "pointermove"
    /\ dragRef # Null
    /\ rotation # dragRef.startRotation
    /\ pinchRef # Null
    /\ zoom = ZOOM_MAX

\* C19: a drag anchor is created only by a pointer-down with the primary
\* button (any other button leaves the anchor as it is, so Idle stays
\* Idle), a pointer-move while Idle leaves rotation unchanged, and a
\* pointer-up or pointer-leave clears the anchor and leaves rotation as the
\* last move set it.
C19_DragStateMachine ==
    [][ /\ (dragRef' # Null /\ dragRef' # dragRef)
            => /\ event'.type = "pointerdown" /\ event'.button = 0
               /\ dragRef' = [startAngle |-> angleFromEvent(event'.theta),
                              startRotation |-> rotation]
        /\ (event'.type = "pointerdown" /\ event'.button # 0)
            => (dragRef' = dragRef /\ rotation' = rotation)
        /\ (event'.type = "pointermove" /\ dragRef = Null)
            => (rotation' = rotation /\ dragRef' = Null)
        /\ event'.type \in {"pointerup", "pointerleave"}
            => (dragRef' = Null /\ rotation' = rotation) ]_vars

\* a pointer-leave has ended a drag that had turned the wheel half a turn
C19_Witness ==
    /\ event.type = "pointerleave"
    /\ dragRef = Null
    /\ rotation = 180
    /\ pinchRef = Null

\* C20: after a touch-start that leaves exactly two touches the baseline
\* holds the zoom in effect at that moment, whatever wheel events, pinches
\* and resets came before, and the distance of the two touches.
C20_BaselineIsCurrentZoom ==
    (event.type = "touchstart" /\ Len(touches) = 2)
    => /\ pinchRef # Null
       /\ pinchRef.initialZoom = zoom
       /\ pinchRef.initialDistance = getTouchDistance(touches)

\* a second finger has come down after the zoom had been brought to its
\* maximum
C20_Witness ==
    /\ event.type = "touchstart"
    /\ Len(touches) = 2
    /\ zoom = ZOOM_MAX
    /\ pinchRef # Null
    /\ pinchRef.initialZoom = ZOOM_MAX
    /\ dragRef = Null

\* C21: a touch-end or touch-cancel that leaves fewer than two touches leaves
\* no baseline; without a baseline no touch-move changes zoom; and a baseline
\* comes into being only by a touch-start that leaves exactly two touches.
C21_BaselineClearedBelowTwo ==
    [][ /\ (event'.type \in {"touchend", "touchcancel"} /\ Len(touches') < 2)
            => pinchRef' = Null
        /\ (event'.type = "touchmove" /\ pinchRef = Null)
            => (zoom' = zoom /\ pinchRef' = Null)
        /\ (pinchRef = Null /\ pinchRef' # Null)
            => (event'.type = "touchstart" /\ Len(touches') = 2) ]_vars

\* a pinch has doubled the zoom and one of its two fingers was then lifted
C21_Witness ==
    /\ event.type = "touchend"
    /\ Len(touches) = 1
    /\ pinchRef = Null
    /\ zoom = Int2Num(2)
    /\ dragRef = Null
    /\ rotation = 0

----------------------------------------------------------------------------
(* Properties of the segment handlers (SpecTooltip) *)

\* C22: a pointer-enter over a segment while a drag anchor is present
\* leaves the tooltip as it is; a pointer-enter over segment S with no
\* anchor present sets the tooltip to S.
C22_EnterRespectsDrag ==
    [][ event'.type = "segmententer" =>
          /\ dragRef # Null => tooltip' = tooltip
          /\ dragRef = Null
                => (tooltip' # Null /\ tooltip'.seg = segments[target']) ]_vars

\* during a drag the pointer has entered the second segment while the
\* tooltip shows the first
C22_Witness ==
    /\ event.type = "segmententer"
    /\ dragRef # Null
    /\ target = 2
    /\ tooltip # Null
    /\ tooltip.seg = segments[1]

\* C23: a pointer-move over segment S changes the tooltip only when the
\* tooltip shows S, and then only its position; with no tooltip or the
\* tooltip of another segment the tooltip state is unchanged, so no
\* pointer-move changes the segment shown or re-opens a dismissed tooltip.
C23_StaleMoveDiscarded ==
    [][ event'.type = "pointermove" =>
          /\ tooltip = Null => tooltip' = Null
          /\ tooltip # Null => (tooltip' # Null /\ tooltip'.seg = tooltip.seg)
          /\ (target' = 0 \/ tooltip = Null
                 \/ (tooltip # Null /\ target' # 0
                        /\ tooltip.seg # segments[target']))
                => tooltip' = tooltip ]_vars

\* the pointer has moved over the second segment and the tooltip of the
\* first, placed from the smaller rectangle, is as it was
C23_Witness ==
    /\ event.type = "pointermove"
    /\ target = 2
    /\ tooltip # Null
    /\ tooltip.seg = segments[1]
    /\ tooltip.at.rect.width = 400

\* C24 as stated: a pointer-down on a segment creates no drag anchor, and a
\* pointer-move that follows that pointer-down does not change rotation.
C24_SegmentPressIsNoDrag ==
    [][ /\ (event'.type = "pointerdown" /\ target' # 0) => dragRef' = dragRef
        /\ (event.type = "pointerdown" /\ target # 0 /\ event'.type = "pointermove")
              => rotation' = rotation ]_vars

----------------------------------------------------------------------------
(* Properties of the flattener: children, ancestry, arcs (SpecFlatten) *)

RECURSIVE Flat(_)
Flat(ss) == IF ss = <<>> THEN <<>> ELSE Head(ss) \o Flat(Tail(ss))

\* the nodes of a taxonomy with their rings, parents before children, in
\* key order
NodesOfSub(sub) ==
    <<[node |-> sub, ring |-> 2]>>
    \o [k \in 1..Len(sub.children) |-> [node |-> sub.children[k], ring |-> 3]]

NodesOfCat(cat) ==
    <<[node |-> cat, ring |-> 1]>>
    \o Flat([j \in 1..Len(cat.children) |-> NodesOfSub(cat.children[j])])

NodesInOrder(d) == Flat([i \in 1..Len(d) |-> NodesOfCat(d[i])])

EmptyChildren(n) == n.hasChildren /\ n.children = <<>>

\* C25: every node has exactly its own segment, in order, with finite
\* angles; a node whose children map is present but empty has no descendant
\* segment and a finite span greater than 0, the same as a node without a
\* children map in its place (a category's span is 360 / number of
\* categories).
C25_EmptyChildrenMap ==
    fpc = "done" =>
        LET nodes == NodesInOrder(data)
        IN  /\ Len(segments) = Len(nodes)
            /\ \A i \in 1..Len(segments) :
                  /\ segments[i].ring = nodes[i].ring
                  /\ segments[i].name = nodes[i].node.name
                  /\ IsFinite(segments[i].startAngle)
                  /\ IsFinite(segments[i].endAngle)
                  /\ segments[i].ring = 1
                        => SpanOf(segments[i]) = NumDiv(Int2Num(360), Int2Num(Len(data)))
                  /\ EmptyChildren(nodes[i].node)
                        => /\ ChildrenAt(i) = {}
                           /\ IsFinite(SpanOf(segments[i]))
                           /\ NumLt(Int2Num(0), SpanOf(segments[i]))

\* a category with an empty children map and a subcategory with an empty
\* children map have been flattened
C25_Witness ==
    /\ fpc = "done"
    /\ \E i \in 1..Len(data) : EmptyChildren(data[i])
    /\ \E i \in 1..Len(data) : \E j \in 1..Len(data[i].children) :
          EmptyChildren(data[i].children[j])
    /\ Len(segments) = Len(NodesInOrder(data))

\* the position of the nearest segment of the given ring before position j
AncestorAt(j, ring) ==
    CHOOSE k \in 1..j : /\ segments[k].ring = ring
                       /\ \A l \in (k + 1)..j : segments[l].ring # ring

\* C26: a ring-1 segment has no parentId and its own id as categoryId; a
\* ring-2 segment has the id of its ring-1 ancestor as parentId and
\* categoryId; a ring-3 segment has the id of its ring-2 parent as parentId
\* and the id of its ring-1 ancestor as categoryId; every parentId is the id
\* of a segment one ring lower.
C26_Ancestry ==
    fpc = "done" =>
    \A j \in 1..Len(segments) :
        LET s == segments[j]
        IN  /\ s.ring = 1 => (~s.hasParentId /\ s.categoryId = s.id)
            /\ s.ring = 2
                  => /\ s.hasParentId
                     /\ s.parentId = segments[AncestorAt(j, 1)].id
                     /\ s.categoryId = segments[AncestorAt(j, 1)].id
            /\ s.ring = 3
                  => /\ s.hasParentId
                     /\ s.parentId = segments[AncestorAt(j, 2)].id
                     /\ s.categoryId = segments[AncestorAt(j, 1)].id
            /\ s.hasParentId
                  => \E k \in 1..Len(segments) :
                        segments[k].id = s.parentId /\ segments[k].ring = s.ring - 1

\* a ring-3 segment of the second category has been emitted, with keys that
\* contain the separator
C26_Witness ==
    /\ fpc = "done"
    /\ \E j \in 1..Len(segments) :
          /\ segments[j].ring = 3
          /\ segments[j].categoryId = <<"a", "-", "b">>
          /\ segments[j].parentId # segments[j].categoryId

----------------------------------------------------------------------------
(* Properties of the tooltip anchor (SpecTooltip) *)

\* C27 as stated: the point a pointer-enter or click places the tooltip from
\* is taken at the screen angle m + R, the segment's mid angle m carried
\* through the wheel rotation R.
C27_AnchorFollowsRotation ==
    (/\ event.type \in {"segmententer", "click"}
     /\ tooltip # Null
     /\ tooltip.seg = segments[target])
    => LET m == midAngle(tooltip.seg.startAngle, tooltip.seg.endAngle)
           turned == NumSub(tooltip.at.mid, m)
       IN  /\ turned[2] = 1
           /\ (turned[1] - rotation) % 360 = 0

\* the vector from the segment point to the tooltip position
TipVector ==
    <<NumSub(pos.tip[1], Int2Num(pos.segPoint[1])),
      NumSub(pos.tip[2], Int2Num(pos.segPoint[2]))>>

\* the vector from the segment point to the centre of the viewport
CentreVector ==
    <<pos.viewCentre[1] - pos.segPoint[1], pos.viewCentre[2] - pos.segPoint[2]>>

----------------------------------------------------------------------------
(* The two variants side by side (SpecPair) *)

\* C29: given the same pointer, wheel and touch events from the initial
\* state, the display variant and the interactive variant have the same
\* rotation, zoom, drag anchor and pinch baseline after every event.
C29_SameGestureCore ==
    display.pc = "run" =>
        /\ display.rotation = rotation
        /\ display.zoom = zoom
        /\ display.dragRef = dragRef
        /\ display.pinchRef = pinchRef

\* both variants have been pinched down to the smallest zoom during a drag
\* that turned them
C29_Witness ==
    /\ display.pc = "run"
    /\ event.type = "touchmove"
    /\ pinchRef # Null
    /\ zoom = ZOOM_MIN
    /\ dragRef # Null
    /\ rotation # 0
    /\ display.zoom = DISPLAY_ZOOM_MIN
    /\ display.rotation = rotation

----------------------------------------------------------------------------
(* The angles handed to describeArc, in double precision (SpecArc) *)

\* 360 + 2^-44, the double next above 360
Next360 == DblAdd(DblOfNat(360), [m |-> <<1>>, e |-> -44])

\* the exact span of a segment is more than 180
SpanOver180(s) ==
    LET al == Aligned(s.startAngle, DblOfNat(180))
    IN  DblLt([m |-> LimbsAdd(al.x, al.y), e |-> al.e], s.endAngle)

\* C30 as stated: every segment buildWheelSegments produces has
\* 0 <= startAngle <= endAngle <= 360.
C30_ArcWithinFullTurn ==
    arc.pc = "done" =>
        \A x \in 1..3 :
            /\ DblLe(DblOfNat(0), arc.segs[x].startAngle)
            /\ DblLe(arc.segs[x].startAngle, arc.segs[x].endAngle)
            /\ DblLe(arc.segs[x].endAngle, DblOfNat(360))

\* C30: every segment buildWheelSegments produces has 0 <= startAngle <=
\* endAngle, and endAngle is at most the double next above 360; so endDeg -
\* startDeg is never negative and the large-arc flag is set exactly for spans
\* greater than 180.
C30_ArcPrecondition ==
    arc.pc = "done" =>
        \A x \in 1..3 :
            LET s == arc.segs[x]
            IN  /\ DblLe(DblOfNat(0), s.startAngle)
                /\ DblLe(s.startAngle, s.endAngle)
                /\ DblLe(s.endAngle, Next360)
                /\ DblLargeArcFlag(s.startAngle, s.endAngle) = 1 <=> SpanOver180(s)

\* the last leaf of the last category ends above 360 and starts below its
\* end, and its category, a third of the turn, takes the small arc
C30_Witness ==
    /\ arc.pc = "done"
    /\ arc.path.n = 3
    /\ arc.path.i = 2
    /\ DblLt(DblOfNat(360), arc.segs[3].endAngle)
    /\ DblLt(arc.segs[3].startAngle, arc.segs[3].endAngle)
    /\ DblLargeArcFlag(arc.segs[1].startAngle, arc.segs[1].endAngle) = 0

----------------------------------------------------------------------------
(* Pinch and wheel together (SpecPinch) *)

\* the zoom a pinch gives: the baseline's zoom times the ratio of the finger
\* distance to the baseline's distance, kept within the zoom limits
ZoomOfPinch(initialDistance, initialZoom, ts) ==
    LET ratio == NumDiv(Int2Num(Hypot(ts[2][1] - ts[1][1], ts[2][2] - ts[1][2])),
                        initialDistance)
        z == NumMul(initialZoom, ratio)
        low == IF IsNaN(z) THEN z ELSE IF NumLt(z, <<1, 2>>) THEN <<1, 2>> ELSE z
    IN  IF IsNaN(low) THEN low ELSE IF NumLt(<<3, 1>>, low) THEN <<3, 1>> ELSE low

\* C31: while a pinch baseline is present, the zoom after a touch-move with
\* two fingers down depends on the baseline and the finger distance only,
\* whatever the zoom was before the move (a wheel may have changed it).
C31_PinchOverwritesWheel ==
    (event.type = "touchmove" /\ Len(touches) = 2 /\ pinchRef # Null)
    => zoom = ZoomOfPinch(pinchRef.initialDistance, pinchRef.initialZoom, touches)

\* a pinch was begun at zoom 1 with the fingers 5 apart, the wheel then took
\* the zoom down to 1/2, and the move of a finger to 10 apart gives 2, not 1
C31_Witness ==
    /\ event.type = "touchmove"
    /\ before.type = "wheel"
    /\ before.zoom = <<1, 2>>
    /\ Len(touches) = 2
    /\ pinchRef = [initialDistance |-> Int2Num(5), initialZoom |-> Int2Num(1)]
    /\ zoom = Int2Num(2)

\* C32: while two or more fingers are down, the pinch baseline is the one
\* taken at the touch-start that left exactly two fingers down (adding a
\* third finger or lifting one of three neither clears nor retakes it), and a
\* touch-move with two fingers down scales the zoom from that distance and
\* that zoom.
C32_BaselineKept ==
    Len(touches) >= 2 =>
        /\ pinchRef # Null
        /\ pinchRef.initialDistance = before.baseDistance
        /\ pinchRef.initialZoom = before.baseZoom
        /\ event.type = "touchmove" /\ Len(touches) = 2
              => zoom = ZoomOfPinch(before.baseDistance, before.baseZoom, touches)

\* two fingers went down 5 apart at zoom 1, a third was added and the first
\* lifted, which left two fingers on one point; the move of one of them to 10
\* apart gives the zoom 2, from the distance 5 of the first two fingers
C32_Witness ==
    /\ event.type = "touchmove"
    /\ Len(touches) = 2
    /\ before.peak = 3
    /\ before.type \in {"touchend", "touchcancel"}
    /\ before.baseDistance = Int2Num(5)
    /\ before.baseZoom = Int2Num(1)
    /\ pinchRef = [initialDistance |-> Int2Num(5), initialZoom |-> Int2Num(1)]
    /\ touches = <<<<6, 8>>, <<0, 0>>>>
    /\ zoom = Int2Num(2)

====
